---- MODULE Spec2Model ----
(***************************************************************************)
(* State-machine model of the first-person scene in                        *)
(* src/components/HorrorGame.tsx (and of the second revision of the same   *)
(* component, src/unnamed/part_000): the VirtualJoystick input mapper, the *)
(* Player per-frame movement integrator and the flashlight toggle.         *)
(*                                                                         *)
(* Numbers.  JavaScript numbers are modelled by exact values:              *)
(*   - a rational is a record [n, d] in lowest terms with d > 0;           *)
(*   - a joystick value (a pixel offset divided by a Euclidean distance)   *)
(*     is kept as its signed square  sgn(v) * v^2, a rational, so that     *)
(*     dx / sqrt(dx^2 + dy^2) is exact for every integer dx, dy.           *)
(* Floating-point rounding is not modelled.                                *)
(***************************************************************************)
EXTENDS Integers, FiniteSets, Sequences, TLC

VARIABLES
    build,           \* which revision of the component is running
    isDragging,      \* VirtualJoystick: useState(false)
    knob,            \* VirtualJoystick: useState({x: 0, y: 0}) "position" (signed squares, px)
    moveDirection,   \* HorrorGame: useState({x: 0, y: 0})      (signed squares)
    flashlightOn,    \* HorrorGame: useState(true)
    mouseMovement,   \* HorrorGame: useState({x: 0, y: 0})      (rationals)
    playerPosition,  \* Scene.playerPosition / Player.positionRef (rational Vector3)
    camera,          \* camera orientation, owned by the rendering engine
    cameraPosition,  \* camera.position
    spotLight,       \* spotLightRef.current: position and target.position
    clicks,          \* number of flashlight button clicks so far, modulo 2
    frames,          \* number of frame callbacks so far
    lastEvent        \* the event that produced the current state

vars == <<build, isDragging, knob, moveDirection, flashlightOn, mouseMovement,
          playerPosition, camera, cameraPosition, spotLight, clicks, frames,
          lastEvent>>

-----------------------------------------------------------------------------
(* Bounds of the model                                                      *)

MaxFrames == 2

GridSteps == 4

-----------------------------------------------------------------------------
(* Exact arithmetic                                                         *)

Abs(i) == IF i < 0 THEN -i ELSE i

Sign(i) == IF i < 0 THEN -1 ELSE IF i > 0 THEN 1 ELSE 0

RECURSIVE GCD(_, _)
GCD(a, b) == IF b = 0 THEN a ELSE GCD(b, a % b)

\* the rational n/d (d # 0) in lowest terms
Rat(n, d) ==
    LET g == GCD(Abs(n), Abs(d))
        s == IF d < 0 THEN -1 ELSE 1
    IN  [n |-> (s * n) \div g, d |-> (s * d) \div g]

RInt(i) == [n |-> i, d |-> 1]

RZero == RInt(0)

RAdd(a, b) == Rat(a.n * b.d + b.n * a.d, a.d * b.d)

RNeg(a) == [n |-> -a.n, d |-> a.d]

RSub(a, b) == RAdd(a, RNeg(b))

RMul(a, b) == Rat(a.n * b.n, a.d * b.d)

\* a / b, b # 0
RDiv(a, b) == Rat(a.n * b.d, a.d * b.n)

RLe(a, b) == a.n * b.d <= b.n * a.d

RAbs(a) == [n |-> Abs(a.n), d |-> a.d]

IsSquare(i) == \E r \in 0..i : r * r = i

ISqrt(i) == CHOOSE r \in 0..i : r * r = i

\* Math.sqrt of a rational that is the square of a rational
RSqrt(a) == [n |-> ISqrt(a.n), d |-> ISqrt(a.d)]

\* Signed squares: the real v is represented by sgn(v) * v^2.
SqOfInt(i) == RInt(Sign(i) * i * i)

\* v / sqrt(d2), d2 > 0
SqDivRoot(s, d2) == RDiv(s, RInt(d2))

\* v * c and v / c for an integer c > 0
SqMulInt(s, c) == RMul(s, RInt(c * c))

SqDivInt(s, c) == RDiv(s, RInt(c * c))

SqNeg(s) == RNeg(s)

SqIsRational(s) == IsSquare(Abs(s.n)) /\ IsSquare(s.d)

\* the value itself, when it is rational
SqToRat(s) == [n |-> Sign(s.n) * ISqrt(Abs(s.n)), d |-> ISqrt(s.d)]

Zero2 == [x |-> RZero, y |-> RZero]

-----------------------------------------------------------------------------
(* Three.js vectors and the camera orientation                              *)

Vec3(x, y, z) == [x |-> x, y |-> y, z |-> z]

\* an orientation: yaw about the vertical axis, then pitch about the
\* camera's own x axis, each given by its sine and cosine
Orient(sy, cy, sp, cp) == [sy |-> sy, cy |-> cy, sp |-> sp, cp |-> cp]

Identity == Orient(RZero, RInt(1), RZero, RInt(1))

\* Vector3.applyQuaternion(camera.quaternion)
applyQuaternion(v, q) ==
    LET y1 == RSub(RMul(v.y, q.cp), RMul(v.z, q.sp))
        z1 == RAdd(RMul(v.y, q.sp), RMul(v.z, q.cp))
    IN  Vec3(RAdd(RMul(v.x, q.cy), RMul(z1, q.sy)),
             y1,
             RAdd(RNeg(RMul(v.x, q.sy)), RMul(z1, q.cy)))

\* Vector3.length()
length(v) == RSqrt(RAdd(RMul(v.x, v.x), RAdd(RMul(v.y, v.y), RMul(v.z, v.z))))

\* Vector3.multiplyScalar(s)
multiplyScalar(v, s) == Vec3(RMul(v.x, s), RMul(v.y, s), RMul(v.z, s))

\* Vector3.normalize(): divideScalar(length() || 1)
normalize(v) ==
    LET len == length(v)
        by  == IF len = RZero THEN RInt(1) ELSE len
    IN  Vec3(RDiv(v.x, by), RDiv(v.y, by), RDiv(v.z, by))

\* Vector3.add(w)
add(v, w) == Vec3(RAdd(v.x, w.x), RAdd(v.y, w.y), RAdd(v.z, w.z))

\* Vector3.addScaledVector(w, s)
addScaledVector(v, w, s) == add(v, multiplyScalar(w, s))

-----------------------------------------------------------------------------
(* Program constants and inputs                                             *)

maxDistance == 40

\* the viewport, and joystickRef.current.getBoundingClientRect() of the
\* "absolute left-8 bottom-8 w-32 h-32" joystick element in it
Window == [innerWidth |-> 800, innerHeight |-> 600]

Rect == [left |-> 32, top |-> Window.innerHeight - 32 - 128, width |-> 128, height |-> 128]

CenterX == Rect.left + Rect.width \div 2

CenterY == Rect.top + Rect.height \div 2

Point(ox, oy) == [x |-> CenterX + ox, y |-> CenterY + oy]

\* pointer positions whose mapped vector has rational components
RationalPoints ==
    { Point(0, -80), Point(-12, 16) }

\* pointer positions on a 20 px grid around the joystick centre
GridPoints ==
    { Point(20 * i, 20 * j) : i \in -GridSteps..GridSteps, j \in -GridSteps..GridSteps }

\* frame deltas, in seconds
Deltas == { RInt(1), Rat(1, 2) }

\* camera orientations the rendering engine may hold: level; turned and
\* looking up; looking steeply down.  (An orientation looking exactly along
\* the vertical axis, where the flattened forward vector is zero, is not
\* among them.)
Orientations ==
    { Identity,
      Orient(Rat(3, 5), Rat(4, 5), Rat(3, 5), Rat(4, 5)),
      Orient(RZero, RInt(1), Rat(-4, 5), Rat(3, 5)) }

\* touches on the canvas: number of fingers and the first finger's position
CanvasTouches ==
    { [n |-> 1, x |-> 650, y |-> 200], [n |-> 2, x |-> 400, y |-> 300] }

Builds == { "HorrorGame.tsx", "part_000" }

-----------------------------------------------------------------------------
(* Initial state                                                            *)

\* Scene: useRef(new THREE.Vector3(0, 1.6, 10))
InitialPosition == Vec3(RZero, Rat(16, 10), RInt(10))

\* Scene: useRef(new THREE.Euler(0, 0, 0))
playerRotation == Identity

\* lastEvent: the kind of event, the pointer position it carried, the frame
\* delta it carried, and (for a release) whether the player was moving
NoEvent == [kind |-> "mount", x |-> 0, y |-> 0, delta |-> RZero, was |-> FALSE]

Event(kind, x, y, delta, was) ==
    [kind |-> kind, x |-> x, y |-> y, delta |-> delta, was |-> was]

Init ==
    /\ build \in Builds
    /\ isDragging = FALSE
    /\ knob = Zero2
    /\ moveDirection = Zero2
    /\ flashlightOn = TRUE
    /\ mouseMovement = Zero2
    /\ playerPosition = InitialPosition
    /\ camera \in Orientations
    /\ cameraPosition = IF build = "part_000" THEN InitialPosition
                        ELSE Vec3(RZero, RZero, RInt(5))
    /\ spotLight = [position |-> Vec3(RZero, RInt(1), RZero),
                    target   |-> Vec3(RZero, RZero, RZero)]
    /\ clicks = 0
    /\ frames = 0
    /\ lastEvent = NoEvent

-----------------------------------------------------------------------------
(* VirtualJoystick                                                          *)

\* HorrorGame: onMove={(x, y) => setMoveDirection({ x, y })}
onMove(x, y) == moveDirection' = [x |-> x, y |-> y]

\* updatePosition without the clamp to maxDistance
updatePositionNoClamp(clientX, clientY) ==
    LET dx == SqOfInt(clientX - CenterX)
        dy == SqOfInt(clientY - CenterY)
    IN  /\ knob' = [x |-> dx, y |-> dy]
        /\ onMove(SqDivInt(dx, maxDistance), SqNeg(SqDivInt(dy, maxDistance)))

\* updatePosition without the inversion of the vertical axis
updatePositionNoFlip(clientX, clientY) ==
    LET dx0 == clientX - CenterX
        dy0 == clientY - CenterY
        d2  == dx0 * dx0 + dy0 * dy0
        far == d2 > maxDistance * maxDistance
        dx  == IF far THEN SqMulInt(SqDivRoot(SqOfInt(dx0), d2), maxDistance)
                      ELSE SqOfInt(dx0)
        dy  == IF far THEN SqMulInt(SqDivRoot(SqOfInt(dy0), d2), maxDistance)
                      ELSE SqOfInt(dy0)
    IN  /\ knob' = [x |-> dx, y |-> dy]
        /\ onMove(SqDivInt(dx, maxDistance), SqDivInt(dy, maxDistance))

updatePosition(clientX, clientY) ==
    LET dx0 == clientX - CenterX
        dy0 == clientY - CenterY
        d2  == dx0 * dx0 + dy0 * dy0          \* distance * distance
        far == d2 > maxDistance * maxDistance \* distance > maxDistance
        dx  == IF far THEN SqMulInt(SqDivRoot(SqOfInt(dx0), d2), maxDistance)
                      ELSE SqOfInt(dx0)
        dy  == IF far THEN SqMulInt(SqDivRoot(SqOfInt(dy0), d2), maxDistance)
                      ELSE SqOfInt(dy0)
    IN  /\ knob' = [x |-> dx, y |-> dy]
        /\ onMove(SqDivInt(dx, maxDistance), SqNeg(SqDivInt(dy, maxDistance)))

handleStart(clientX, clientY) ==
    /\ isDragging' = TRUE
    /\ updatePosition(clientX, clientY)

\* handleMove without the isDragging test
handleMoveUnguarded(clientX, clientY) ==
    /\ updatePosition(clientX, clientY)
    /\ UNCHANGED isDragging

handleMove(clientX, clientY) ==
    IF isDragging
    THEN /\ updatePosition(clientX, clientY)
         /\ UNCHANGED isDragging
    ELSE UNCHANGED <<isDragging, knob, moveDirection>>

\* handleEnd without onMove(0, 0)
handleEndKeepsMove ==
    /\ isDragging' = FALSE
    /\ knob' = Zero2
    /\ UNCHANGED moveDirection

\* handleEnd without setIsDragging(false)
handleEndStillDragging ==
    /\ UNCHANGED isDragging
    /\ knob' = Zero2
    /\ onMove(RZero, RZero)

handleEnd ==
    /\ isDragging' = FALSE
    /\ knob' = Zero2
    /\ onMove(RZero, RZero)

\* what a joystick event leaves alone
JoystickFrame ==
    UNCHANGED <<build, flashlightOn, mouseMovement, playerPosition, camera,
                cameraPosition, spotLight, clicks, frames>>

onTouchStart(P) ==
    \E p \in P :
        /\ handleStart(p.x, p.y)
        /\ lastEvent' = Event("press", p.x, p.y, RZero, FALSE)
        /\ JoystickFrame

onTouchMove(P) ==
    \E p \in P :
        /\ handleMove(p.x, p.y)
        /\ lastEvent' = Event("move", p.x, p.y, RZero, FALSE)
        /\ JoystickFrame

onTouchEnd ==
    /\ handleEnd
    /\ lastEvent' = Event("release", 0, 0, RZero, moveDirection # Zero2)
    /\ JoystickFrame

onMouseDown(P) ==
    \E p \in P :
        /\ handleStart(p.x, p.y)
        /\ lastEvent' = Event("press", p.x, p.y, RZero, FALSE)
        /\ JoystickFrame

onMouseMove(P) ==
    \E p \in P :
        /\ handleMove(p.x, p.y)
        /\ lastEvent' = Event("move", p.x, p.y, RZero, FALSE)
        /\ JoystickFrame

onMouseUp ==
    /\ handleEnd
    /\ lastEvent' = Event("release", 0, 0, RZero, moveDirection # Zero2)
    /\ JoystickFrame

onMouseLeave ==
    /\ handleEnd
    /\ lastEvent' = Event("release", 0, 0, RZero, moveDirection # Zero2)
    /\ JoystickFrame

-----------------------------------------------------------------------------
(* HorrorGame: flashlight button and canvas touch handler                   *)

\* <spotLight intensity={flashlightOn ? 50 : 0} />
intensity == IF flashlightOn THEN 50 ELSE 0

\* a button that only switches the flashlight on
toggleFlashlightOnOnly == flashlightOn' = TRUE

\* onClick={() => setFlashlightOn(!flashlightOn)}
toggleFlashlight == flashlightOn' = ~flashlightOn

onClick ==
    /\ toggleFlashlight
    /\ clicks' = (clicks + 1) % 2
    /\ lastEvent' = Event("click", 0, 0, RZero, FALSE)
    /\ UNCHANGED <<build, isDragging, knob, moveDirection, mouseMovement,
                   playerPosition, camera, cameraPosition, spotLight, frames>>

handleTouchMove(t) ==
    IF t.n = 1
    THEN LET deltaX == Rat(2 * t.x - Window.innerWidth, 2)
             deltaY == Rat(2 * t.y - Window.innerHeight, 2)
         IN  mouseMovement' = [x |-> RMul(deltaX, Rat(2, 1000)),
                               y |-> RMul(deltaY, Rat(2, 1000))]
    ELSE UNCHANGED mouseMovement

onCanvasTouchMove ==
    \E t \in CanvasTouches :
        /\ build = "HorrorGame.tsx"
        /\ handleTouchMove(t)
        /\ lastEvent' = Event("canvas", t.x, t.y, RZero, FALSE)
        /\ UNCHANGED <<build, isDragging, knob, moveDirection, flashlightOn,
                       playerPosition, camera, cameraPosition, spotLight,
                       clicks, frames>>

-----------------------------------------------------------------------------
(* The rendering engine turning the camera (not code of the component)      *)

EngineLook ==
    \E q \in Orientations \ {camera} :
        /\ camera' = q
        /\ lastEvent' = Event("look", 0, 0, RZero, FALSE)
        /\ UNCHANGED <<build, isDragging, knob, moveDirection, flashlightOn,
                       mouseMovement, playerPosition, cameraPosition, spotLight,
                       clicks, frames>>

-----------------------------------------------------------------------------
(* Player: the per-frame callback                                           *)

\* forward without "forward.normalize()"
forwardOfNoNormalize(q) ==
    LET f == applyQuaternion(Vec3(RZero, RZero, RInt(-1)), q)
    IN  Vec3(f.x, RZero, f.z)

\* forward without "forward.y = 0"
forwardOfKeepsY(q) ==
    normalize(applyQuaternion(Vec3(RZero, RZero, RInt(-1)), q))

\* forward: (0,0,-1) turned by the camera, flattened, normalized
forwardOf(q) ==
    LET f == applyQuaternion(Vec3(RZero, RZero, RInt(-1)), q)
    IN  normalize(Vec3(f.x, RZero, f.z))

\* right: (1,0,0) turned by the camera, flattened, normalized
rightOf(q) ==
    LET r == applyQuaternion(Vec3(RInt(1), RZero, RZero), q)
    IN  normalize(Vec3(r.x, RZero, r.z))

\* const moveSpeed = 3 * delta
moveSpeedOf(delta) == RMul(RInt(3), delta)

\* the integrator walking forward whatever moveDirection.y is
integrateAlwaysForward(position, q, move, delta) ==
    LET moveSpeed == moveSpeedOf(delta)
        p1 == addScaledVector(position, forwardOf(q), moveSpeed)
    IN  addScaledVector(p1, rightOf(q), RMul(SqToRat(move.x), moveSpeed))

\* position after the two addScaledVector calls
integrate(position, q, move, delta) ==
    LET moveSpeed == moveSpeedOf(delta)
        p1 == addScaledVector(position, forwardOf(q),
                              RMul(SqToRat(move.y), moveSpeed))
    IN  addScaledVector(p1, rightOf(q), RMul(SqToRat(move.x), moveSpeed))

\* camera.position.copy(position) and the spotlight update
followPlayer(position, q) ==
    /\ cameraPosition' = position
    /\ spotLight' = [position |-> position,
                     target   |-> add(position, multiplyScalar(forwardOf(q), RInt(5)))]

\* src/components/HorrorGame.tsx
useFrame(delta) ==
    LET position == integrate(playerPosition, camera, moveDirection, delta)
    IN  /\ playerPosition' = position
        /\ followPlayer(position, camera)
        /\ camera' = playerRotation

\* src/unnamed/part_000
useFrameRef(delta) ==
    LET position == integrate(playerPosition, camera, moveDirection, delta)
    IN  /\ playerPosition' = position
        /\ followPlayer(position, camera)
        /\ UNCHANGED camera

Frame ==
    \E delta \in Deltas :
        /\ frames < MaxFrames
        /\ build = "HorrorGame.tsx"
        /\ useFrame(delta)
        /\ frames' = frames + 1
        /\ lastEvent' = Event("frame", 0, 0, delta, FALSE)
        /\ UNCHANGED <<build, isDragging, knob, moveDirection, flashlightOn,
                       mouseMovement, clicks>>

FrameRef ==
    \E delta \in Deltas :
        /\ frames < MaxFrames
        /\ build = "part_000"
        /\ useFrameRef(delta)
        /\ frames' = frames + 1
        /\ lastEvent' = Event("frame", 0, 0, delta, FALSE)
        /\ UNCHANGED <<build, isDragging, knob, moveDirection, flashlightOn,
                       mouseMovement, clicks>>

-----------------------------------------------------------------------------
(* Specifications                                                           *)

\* the whole component, with pointer positions that keep positions rational
Next ==
    \/ onTouchStart(RationalPoints)
    \/ onTouchMove(RationalPoints)
    \/ onTouchEnd
    \/ onMouseDown(RationalPoints)
    \/ onMouseMove(RationalPoints)
    \/ onMouseUp
    \/ onMouseLeave
    \/ onClick
    \/ onCanvasTouchMove
    \/ EngineLook
    \/ Frame
    \/ FrameRef

Spec == Init /\ [][Next]_vars

\* the joystick alone, over the whole pointer grid
JoystickNext ==
    \/ onTouchStart(GridPoints)
    \/ onTouchMove(GridPoints)
    \/ onTouchEnd
    \/ onMouseDown(GridPoints)
    \/ onMouseMove(GridPoints)
    \/ onMouseUp
    \/ onMouseLeave

JoystickInit == Init /\ camera = Identity

JoystickSpec == JoystickInit /\ [][JoystickNext]_vars

-----------------------------------------------------------------------------
(* Properties                                                               *)

\* squared magnitude of a joystick vector held as signed squares
Magnitude2(m) == RAdd(RAbs(m.x), RAbs(m.y))

\* the pointer displacement carried by the last event
LastDx == lastEvent.x - CenterX

LastDy == lastEvent.y - CenterY

LastD2 == LastDx * LastDx + LastDy * LastDy

\* the last event ran updatePosition
Mapped == lastEvent.kind = "press" \/ (lastEvent.kind = "move" /\ isDragging)

\* C1: after a release (touchend, mouseup, mouse-leave) the MoveVector is
\* exactly (0,0), whatever it was before
ReleaseZeroesMove == lastEvent.kind = "release" => moveDirection = Zero2

ReleaseZeroesMoveWitness ==
    /\ lastEvent.kind = "release"
    /\ lastEvent.was
    /\ moveDirection = Zero2

\* C2: in every reachable state the MoveVector has magnitude <= 1, so both
\* components lie in [-1, 1]
MoveMagnitudeAtMostOne ==
    /\ RLe(Magnitude2(moveDirection), RInt(1))
    /\ RLe(RAbs(moveDirection.x), RInt(1))
    /\ RLe(RAbs(moveDirection.y), RInt(1))

MoveMagnitudeWitness ==
    /\ isDragging
    /\ Mapped
    /\ LastD2 > maxDistance * maxDistance
    /\ ~SqIsRational(moveDirection.x)
    /\ Magnitude2(moveDirection) = RInt(1)

\* C3: a frame callback that runs while the MoveVector is (0,0) leaves the
\* player position unchanged, whatever the delta and the camera orientation
ZeroMoveKeepsPosition ==
    [][(lastEvent'.kind = "frame" /\ moveDirection = Zero2)
          => playerPosition' = playerPosition]_vars

ZeroMoveKeepsPositionWitness ==
    /\ lastEvent.kind = "frame"
    /\ frames >= 2
    /\ build = "part_000"
    /\ camera # Identity
    /\ moveDirection = Zero2
    /\ playerPosition = InitialPosition

\* C4: the joystick starts idle; a press makes it dragging, a release or
\* pointer-leave makes it idle, and no other event changes isDragging
DraggingStateMachine ==
    /\ isDragging = FALSE
    /\ [][/\ lastEvent'.kind = "press" => isDragging' = TRUE
          /\ lastEvent'.kind = "release" => isDragging' = FALSE
          /\ lastEvent'.kind \notin {"press", "release"}
                => isDragging' = isDragging]_vars

DraggingStateMachineWitness ==
    /\ isDragging
    /\ lastEvent.kind \in {"move", "frame", "click", "look", "canvas"}
    /\ frames >= 1
    /\ clicks = 1

\* the unit heading of the camera in the horizontal plane, and the unit
\* vector to its right
Heading(q) == Vec3(RNeg(q.sy), RZero, RNeg(q.cy))

Starboard(q) == Vec3(q.cy, RZero, RNeg(q.sy))

Dot(v, w) == RAdd(RMul(v.x, w.x), RAdd(RMul(v.y, w.y), RMul(v.z, w.z)))

Minus(v, w) == Vec3(RSub(v.x, w.x), RSub(v.y, w.y), RSub(v.z, w.z))

ForwardOnly == [x |-> RZero, y |-> RInt(1)]

\* C5: a frame with MoveVector (0,1) and delta 1 s moves the player by
\* 3 units along the camera's horizontal forward unit vector and by nothing
\* along the right vector
ForwardStep ==
    [][(lastEvent'.kind = "frame" /\ lastEvent'.delta = RInt(1)
            /\ moveDirection = ForwardOnly)
          => /\ playerPosition' =
                    add(playerPosition, multiplyScalar(Heading(camera), RInt(3)))
             /\ Dot(Heading(camera), Heading(camera)) = RInt(1)
             /\ Dot(Minus(playerPosition', playerPosition), Starboard(camera)) = RZero]_vars

ForwardStepWitness ==
    /\ lastEvent.kind = "frame"
    /\ lastEvent.delta = RInt(1)
    /\ moveDirection = ForwardOnly
    /\ build = "part_000"
    /\ frames = 1
    /\ camera = Orient(Rat(3, 5), Rat(4, 5), Rat(3, 5), Rat(4, 5))
    /\ playerPosition = Vec3(Rat(-9, 5), Rat(8, 5), Rat(38, 5))

\* the vector the claim gives for a displacement (dx, dy), as signed squares
ExpectedMove(dx, dy) ==
    LET d2 == dx * dx + dy * dy
        by == IF d2 <= 1600 THEN 1600 ELSE d2
    IN  [x |-> Rat(Sign(dx) * dx * dx, by), y |-> Rat(-Sign(dy) * dy * dy, by)]

\* C6: the mapped MoveVector is (dx/40, -dy/40) when the displacement is at
\* most 40 long and the unit vector along (dx, -dy) when it is longer;
\* (80, 0) maps to (1, 0)
MappingPreservesDirection ==
    Mapped =>
        /\ moveDirection = ExpectedMove(LastDx, LastDy)
        /\ Sign(moveDirection.x.n) = Sign(LastDx)
        /\ Sign(moveDirection.y.n) = -Sign(LastDy)
        /\ RMul(RAbs(moveDirection.x), RInt(LastDy * LastDy))
              = RMul(RAbs(moveDirection.y), RInt(LastDx * LastDx))
        /\ (LastDx = 80 /\ LastDy = 0)
              => moveDirection = [x |-> RInt(1), y |-> RZero]

MappingWitness ==
    /\ lastEvent.kind = "move"
    /\ isDragging
    /\ LastDx = 80
    /\ LastDy = 0
    /\ moveDirection = [x |-> RInt(1), y |-> RZero]

\* C7: only the rendering engine changes the camera orientation: no frame
\* callback and no event handler of the component writes it
CameraReadOnly ==
    [][lastEvent'.kind # "look" => camera' = camera]_vars

\* C8: the flashlight starts on, is on iff the number of clicks is even,
\* the spotlight intensity is 50 when on and 0 when off, and nothing but a
\* click changes it
FlashlightParity ==
    /\ flashlightOn <=> clicks = 0
    /\ intensity = (IF clicks = 0 THEN 50 ELSE 0)
    /\ intensity # 0 <=> flashlightOn

FlashlightParityWitness ==
    /\ clicks = 1
    /\ ~flashlightOn
    /\ intensity = 0
    /\ lastEvent.kind = "frame"
    /\ isDragging

\* C9: the vertical component of the player position stays 1.6
StaysAtEyeHeight == playerPosition.y = Rat(16, 10)

StaysAtEyeHeightWitness ==
    /\ lastEvent.kind = "frame"
    /\ build = "part_000"
    /\ camera.sp # RZero
    /\ playerPosition # InitialPosition
    /\ playerPosition.y = Rat(16, 10)

\* C10: while the joystick is idle the MoveVector and the knob offset are
\* (0,0); a pointer move received while idle changes neither
IdleMeansCentered ==
    ~isDragging => (moveDirection = Zero2 /\ knob = Zero2)

IdleMeansCenteredWitness ==
    /\ ~isDragging
    /\ lastEvent.kind = "move"
    /\ lastEvent.x # CenterX
    /\ moveDirection = Zero2
    /\ knob = Zero2

====
